---- MODULE Spec2Model ----
(***************************************************************************)
(* A model of svg2pdf's gradient compiler (src/render/gradient.rs), its    *)
(* path renderer and tiling-pattern compiler (src/render/path.rs) and the  *)
(* older path renderer (src/write/path.rs).                                *)
(*                                                                         *)
(* Normalized floats (stop offsets, opacities, color channels) are fixed   *)
(* point numbers on the grid 0..OffsetScale, where OffsetScale stands for  *)
(* 1.0.  Transforms are affine matrices with integer entries.              *)
(***************************************************************************)
EXTENDS Integers, Sequences, FiniteSets, TLC

VARIABLES
    next_ref,   \* ctx.alloc_ref(): the next reference to hand out
    next_name,  \* ctx.deferrer: the next resource name to mint
    scopes,     \* ctx.deferrer: the stack of resource scopes
    frames,     \* ctx.context_frame: the stack of transforms
    written,    \* writer: the objects written so far, in order
    contents,   \* the content streams under construction, innermost last
    stack,      \* the call stack, innermost call last
    returned,   \* the call that returned in the last step, or NoReturn
    status,     \* "idle", "running" or "panicked"
    result,     \* what the last top-level call returned
    calls,      \* how many render / create calls were made so far
    fn_in,      \* input of the function under test (pure-function runs)
    fn_out      \* its output

vars == <<next_ref, next_name, scopes, frames, written, contents, stack,
          returned, status, result, calls, fn_in, fn_out>>

machine_vars == <<next_ref, next_name, scopes, frames, written, contents,
                  stack, returned, status, result, calls>>

(***************************************************************************)
(* Bounds.                                                                 *)
(***************************************************************************)
OffsetScale == 2
MaxStops == 3
MaxCalls == 2

ZERO == 0
ONE == OffsetScale

None == [none |-> TRUE]
Some(v) == [some |-> v]
IsSome(o) == "some" \in DOMAIN o

(***************************************************************************)
(* Transforms (tiny-skia / usvg): x' = sx*x + kx*y + tx,                   *)
(*                                y' = ky*x + sy*y + ty.                   *)
(***************************************************************************)
from_row(sx, ky, kx, sy, tx, ty) ==
    [sx |-> sx, ky |-> ky, kx |-> kx, sy |-> sy, tx |-> tx, ty |-> ty]

Transform_default == from_row(1, 0, 0, 1, 0, 0)

\* a.pre_concat(b): the transform that applies b first and a after it.
pre_concat(a, b) ==
    from_row(a.sx * b.sx + a.kx * b.ky,
             a.ky * b.sx + a.sy * b.ky,
             a.sx * b.kx + a.kx * b.sy,
             a.ky * b.kx + a.sy * b.sy,
             a.sx * b.tx + a.kx * b.ty + a.tx,
             a.ky * b.tx + a.sy * b.ty + a.ty)

\* Transform::from_bbox: the unit square onto the bounding box.
from_bbox(bbox) == from_row(bbox.w, 0, 0, bbox.h, bbox.x, bbox.y)

\* The image of the point p = <<x, y>> under the transform t.
map_point(t, p) ==
    <<t.sx * p[1] + t.kx * p[2] + t.tx, t.ky * p[1] + t.sy * p[2] + t.ty>>

Scale2 == from_row(2, 0, 0, 3, 1, 0)
Rot90 == from_row(0, 1, -1, 0, 0, 2)
Shear == from_row(1, 0, 1, 1, 0, 1)

Transforms == {Transform_default, Scale2, Rot90}
BBoxes == {[x |-> 1, y |-> 2, w |-> 2, h |-> 1], [x |-> 0, y |-> 0, w |-> 1, h |-> 1]}
UnitsSet == {"UserSpaceOnUse", "ObjectBoundingBox"}
ProbePoints == {<<0, 0>>, <<1, 0>>, <<0, 1>>}

(***************************************************************************)
(* Gradient stops.                                                         *)
(***************************************************************************)
Offsets == ZERO..ONE
Opacities == {ONE - 1, ONE}
RED == <<ONE, ZERO, ZERO>>
BLUE == <<ZERO, ZERO, ONE>>
Colors == {RED, BLUE}

UsvgStop == [offset : Offsets, color : Colors, opacity : Opacities]

SeqsOf(S, lo, hi) == UNION {[1..n -> S] : n \in lo..hi}

Sorted(stops) ==
    \A i \in 1..(Len(stops) - 1) : stops[i].offset <= stops[i + 1].offset

\* StopExt: the projections of a stop to its color and opacity channels.
color_stops(s) == [color |-> s.color, offset |-> s.offset]
opacity_stops(s) == [color |-> <<s.opacity>>, offset |-> s.offset]

\* pad_stops with the padding stops keeping the offset of the stop they copy.
pad_stops_keep_offset(stops) ==
    LET s1 == IF Len(stops) > 0 /\ stops[1].offset # ZERO
              THEN <<stops[1]>> \o stops
              ELSE stops
    IN  IF Len(s1) > 0 /\ s1[Len(s1)].offset # ONE
        THEN Append(s1, s1[Len(s1)])
        ELSE s1

\* get_function, lines 211-228: the stops padded to the range 0-1.
pad_stops(stops) ==
    LET s1 == IF Len(stops) > 0 /\ stops[1].offset # ZERO
              THEN <<[stops[1] EXCEPT !.offset = ZERO]>> \o stops
              ELSE stops
    IN  IF Len(s1) > 0 /\ s1[Len(s1)].offset # ONE
        THEN Append(s1, [s1[Len(s1)] EXCEPT !.offset = ONE])
        ELSE s1

\* [0.0, 1.0].repeat(count)
get_function_range(count) ==
    [i \in 1..(2 * count) |-> IF i % 2 = 1 THEN ZERO ELSE ONE]

\* ctx.alloc_ref(): a fresh reference, never handed out again.
alloc_ref(next) == [ref |-> next, next |-> next + 1]

\* An exponential function for two gradient stops.
exponential_function(first_stop, second_stop, count, next) ==
    LET a == alloc_ref(next)
    IN  [ref |-> a.ref, next |-> a.next, panic |-> FALSE,
         objs |-> <<[kind |-> "exponential_function", ref |-> a.ref,
                     range |-> get_function_range(count),
                     c0 |-> first_stop.color, c1 |-> second_stop.color,
                     domain |-> <<ZERO, ONE>>, n |-> ONE]>>]

\* The loop of stitching_function over stops.windows(2), from window i on.
RECURSIVE stitching_windows(_, _, _, _)
stitching_windows(stops, count, i, acc) ==
    IF i + 1 > Len(stops) THEN acc
    ELSE LET e == exponential_function(stops[i], stops[i + 1], count, acc.next)
         IN  stitching_windows(stops, count, i + 1,
                 [next |-> e.next,
                  bounds |-> Append(acc.bounds, stops[i + 1].offset),
                  functions |-> Append(acc.functions, e.ref),
                  encode |-> acc.encode \o <<ZERO, ONE>>,
                  objs |-> acc.objs \o e.objs])

\* Vec::pop: the vector without its last element, if it has one.
vec_pop(v) == IF Len(v) = 0 THEN v ELSE SubSeq(v, 1, Len(v) - 1)

\* A stitching function for multiple gradient stops.
stitching_function(stops, count, next) ==
    IF Len(stops) = 0
    THEN [ref |-> 0, next |-> next, panic |-> TRUE, objs |-> <<>>]
    ELSE LET a == alloc_ref(next)
             w == stitching_windows(stops, count, 1,
                      [next |-> a.next, bounds |-> <<>>, functions |-> <<>>,
                       encode |-> <<>>, objs |-> <<>>])
         IN  [ref |-> a.ref, next |-> w.next, panic |-> FALSE,
              objs |-> Append(w.objs,
                     [kind |-> "stitching_function", ref |-> a.ref,
                      domain |-> <<ZERO, ONE>>,
                      range |-> get_function_range(count),
                      functions |-> w.functions,
                      bounds |-> vec_pop(w.bounds),
                      encode |-> w.encode])]

\* function with the two-stop case sent to stitching_function as well.
function_always_stitching(stops, count, next) ==
    stitching_function(stops, count, next)

\* gradient.rs function, lines 240-250: two stops build an exponential function,
\* more build a stitching function.
function(stops, count, next) ==
    IF Len(stops) = 2
    THEN exponential_function(stops[1], stops[2], count, next)
    ELSE stitching_function(stops, count, next)

\* get_function: pads the stops, projects them to the opacity channel or to
\* the color channels and builds the interpolation function.  `handed` is
\* the sequence passed to function().
get_function(stops, use_opacities, next) ==
    LET padded == pad_stops(stops)
        handed == IF use_opacities
                  THEN [i \in 1..Len(padded) |-> opacity_stops(padded[i])]
                  ELSE [i \in 1..Len(padded) |-> color_stops(padded[i])]
        f == function(handed, IF use_opacities THEN 1 ELSE 3, next)
    IN  [ref |-> f.ref, next |-> f.next, panic |-> f.panic, objs |-> f.objs,
         handed |-> handed]

\* shading_matrix with the three factors composed in the reverse order.
shading_matrix_local_outermost(properties, parent_bbox, accumulated_transform) ==
    pre_concat(pre_concat(properties.transform,
                          IF properties.units = "ObjectBoundingBox"
                          THEN from_bbox(parent_bbox)
                          ELSE Transform_default),
               accumulated_transform)

\* create_shading_pattern, lines 112-118: the matrix of the shading pattern.
shading_matrix(properties, parent_bbox, accumulated_transform) ==
    pre_concat(pre_concat(accumulated_transform,
                          IF properties.units = "ObjectBoundingBox"
                          THEN from_bbox(parent_bbox)
                          ELSE Transform_default),
               properties.transform)

\* get_soft_mask, lines 150-156: the transform of the mask's content.
soft_mask_transform(properties, parent_bbox) ==
    pre_concat(properties.transform,
               IF properties.units = "ObjectBoundingBox"
               THEN from_bbox(parent_bbox)
               ELSE Transform_default)

(***************************************************************************)
(* The scene: paints, gradients, patterns and paths.                       *)
(***************************************************************************)
\* The gradients of the scene: two stops sorted by offset, the first at 0;
\* the last stop's offset and opacity vary.
SceneStops ==
    {s \in SeqsOf(UsvgStop, 2, 2) :
        /\ Sorted(s)
        /\ s[1] = [offset |-> ZERO, color |-> RED, opacity |-> ONE]
        /\ s[2].color = BLUE
        /\ s[2].offset \in {ONE - 1, ONE}}

LinearGradients ==
    [x1 : {0}, y1 : {0}, x2 : {1}, y2 : {0}, stops : SceneStops,
     transform : {Rot90}, units : UnitsSet]

RadialGradients ==
    [fx : {1}, fy : {1}, cx : {1}, cy : {1}, r : {1}, stops : SceneStops,
     transform : {Rot90}, units : UnitsSet]

Patterns ==
    [transform : {Shear}, view_box : {None, Some(Scale2)},
     rect : {[x |-> 0, y |-> 0, w |-> 2, h |-> 2]},
     root : {[kind |-> "Group", transform |-> Transform_default]}]

Color(c) == [kind |-> "Color", c |-> c]
LinearGradient(g) == [kind |-> "LinearGradient", g |-> g]
RadialGradient(g) == [kind |-> "RadialGradient", g |-> g]
Pattern(p) == [kind |-> "Pattern", p |-> p]

\* The paints handed to gradient::create.
CreatePaints ==
    {Color(RED), Pattern(CHOOSE p \in Patterns : TRUE)}
    \cup {LinearGradient(g) : g \in LinearGradients}
    \cup {RadialGradient(g) : g \in RadialGradients}

SampleLinear == CHOOSE g \in LinearGradients : TRUE
SampleRadial == CHOOSE g \in RadialGradients : TRUE

\* The paints of the paths that are rendered.
PatternPaints == {Pattern(p) : p \in Patterns}

PathPaints ==
    {Color(RED), LinearGradient(SampleLinear), RadialGradient(SampleRadial)}
    \cup PatternPaints

StrokePaints ==
    {Color(RED), LinearGradient(SampleLinear), RadialGradient(SampleRadial),
     Pattern(CHOOSE p \in Patterns : TRUE)}

Strokes ==
    [paint : StrokePaints, opacity : {ONE}, width : {1}, miterlimit : {4},
     linecap : {"Butt"}, linejoin : {"Miter"}, dasharray : {None},
     dashoffset : {0}]
    \cup [paint : {Color(BLUE)}, opacity : {ONE - 1}, width : {1},
          miterlimit : {4}, linecap : {"Round"}, linejoin : {"Bevel"},
          dasharray : {Some(<<1, 2>>)}, dashoffset : {0}]

Fills ==
    [paint : PathPaints \ PatternPaints, opacity : {ONE},
     rule : {"NonZero", "EvenOdd"}]
    \cup [paint : PatternPaints, opacity : {ONE}, rule : {"EvenOdd"}]
    \cup [paint : {Color(BLUE)}, opacity : {ONE - 1}, rule : {"NonZero"}]

Segments ==
    <<[kind |-> "MoveTo", x |-> 0, y |-> 0], [kind |-> "LineTo", x |-> 1, y |-> 0],
      [kind |-> "CurveTo", x1 |-> 1, y1 |-> 1, x2 |-> 0, y2 |-> 1, x |-> 0, y |-> 0],
      [kind |-> "ClosePath"]>>

VisiblePaths ==
    [visibility : {"Visible"}, transform : {Scale2},
     stroke : {None} \cup {Some(k) : k \in Strokes},
     fill : {None} \cup {Some(f) : f \in Fills}, data : {Segments}]

HiddenPaths ==
    [visibility : {"Hidden"}, transform : {Scale2},
     stroke : {None, Some(CHOOSE k \in Strokes : k.paint.kind = "Color")},
     fill : {None, Some(CHOOSE f \in Fills : f.paint.kind = "Color")},
     data : {Segments}]

Paths == VisiblePaths \cup HiddenPaths

PageRect == [x1 |-> 0, y1 |-> 0, x2 |-> 4, y2 |-> 4]

(***************************************************************************)
(* Stacks, the resource scope allocator and the transform frame.           *)
(***************************************************************************)
Top(s) == s[Len(s)]
Pop(s) == SubSeq(s, 1, Len(s) - 1)
SetTop(s, v) == [s EXCEPT ![Len(s)] = v]

\* deferrer.push(): a new innermost scope.
deferrer_push(sc) == Append(sc, <<>>)

\* deferrer.pop(resources): the innermost scope is written to the resource
\* dictionary and discarded.
deferrer_pop_dictionary(sc) == Top(sc)
deferrer_pop(sc) == Pop(sc)

\* deferrer.add_*(ref): ref registered in the innermost scope under a newly
\* minted name.
mint_name(category, n) == <<category, n>>
deferrer_add(sc, category, n, ref) ==
    SetTop(sc, Append(Top(sc), [category |-> category,
                                name |-> mint_name(category, n), ref |-> ref]))

\* context_frame: push() saves the current frame, pop() restores it.
frame_push(fr) == Append(fr, Top(fr))
frame_pop(fr) == Pop(fr)
frame_transform(fr) == Top(fr).transform
frame_append_transform(fr, t) ==
    SetTop(fr, [Top(fr) EXCEPT !.transform = pre_concat(@, t)])
frame_set_transform(fr, t) == SetTop(fr, [Top(fr) EXCEPT !.transform = t])
frame_set_render_context(fr, c) ==
    SetTop(fr, [Top(fr) EXCEPT !.render_context = c])

\* The resource names a content stream uses.
names_used(content) ==
    {content[i].name : i \in {j \in 1..Len(content) : "name" \in DOMAIN content[j]}}

names_of(entries) == {entries[i].name : i \in 1..Len(entries)}
refs_of(entries) == {entries[i].ref : i \in 1..Len(entries)}

NoReturn == [fn |-> "none"]

\* What a call remembers of the state it was entered in.
Entry ==
    [scopes |-> Len(scopes), frames |-> frames,
     content_len |-> Len(Top(contents)), written |-> Len(written)]

Running == status = "ok" /\ Len(stack) > 0
Idle == status = "ok" /\ Len(stack) = 0
Frame == Top(stack)
At(fn, pc) == Running /\ Frame.fn = fn /\ Frame.pc = pc

\* The call stack with the innermost frame's fields replaced.
Goto(pc) == SetTop(stack, [Frame EXCEPT !.pc = pc])

\* The call stack after the innermost call returned value to its caller.
ReturnStack(value) ==
    IF Len(stack) = 1 THEN <<>>
    ELSE [Pop(stack) EXCEPT ![Len(stack) - 1].ret = value]

Return(value) ==
    /\ stack' = ReturnStack(value)
    /\ result' = IF Len(stack) = 1 THEN value ELSE result
    /\ returned' = [fn |-> Frame.fn, frame |-> Frame, value |-> value]

Emit(ops) == contents' = SetTop(contents, Top(contents) \o ops)

Panic ==
    /\ status' = "panicked"
    /\ returned' = NoReturn
    /\ UNCHANGED <<next_ref, next_name, scopes, frames, written, contents,
                   stack, result, calls, fn_in, fn_out>>

(***************************************************************************)
(* gradient.rs: create, create_shading_pattern and get_soft_mask.          *)
(***************************************************************************)
CreateBBoxes == {[x |-> 1, y |-> 2, w |-> 2, h |-> 1]}
CreateTransforms == {Scale2}

\* The environment calls gradient::create(paint, parent_bbox, .., accumulated_transform).
CallCreate ==
    /\ Idle
    /\ calls < MaxCalls
    /\ \E paint \in CreatePaints, parent_bbox \in CreateBBoxes,
          accumulated_transform \in CreateTransforms :
          stack' = <<[fn |-> "create", pc |-> "match", paint |-> paint,
                      parent_bbox |-> parent_bbox,
                      accumulated_transform |-> accumulated_transform,
                      entry |-> Entry, ret |-> None]>>
    /\ calls' = calls + 1
    /\ returned' = NoReturn
    /\ UNCHANGED <<next_ref, next_name, scopes, frames, written, contents,
                   status, result, fn_in, fn_out>>

\* create_linear_gradient, create_radial_gradient: the gradient's properties.
linear_properties(gradient) ==
    [coords |-> <<gradient.x1, gradient.y1, gradient.x2, gradient.y2>>,
     shading_type |-> "Axial", stops |-> gradient.stops,
     transform |-> gradient.transform, units |-> gradient.units]

radial_properties(gradient) ==
    [coords |-> <<gradient.fx, gradient.fy, 0, gradient.cx, gradient.cy, gradient.r>>,
     shading_type |-> "Radial", stops |-> gradient.stops,
     transform |-> gradient.transform, units |-> gradient.units]

\* create: a gradient is compiled by create_shading_pattern, any other paint
\* gives None.
create_match ==
    /\ At("create", "match")
    /\ \/ /\ Frame.paint.kind \in {"LinearGradient", "RadialGradient"}
          /\ stack' = Append(Goto("return"),
                 [fn |-> "create_shading_pattern", pc |-> "start",
                  properties |-> IF Frame.paint.kind = "LinearGradient"
                                 THEN linear_properties(Frame.paint.g)
                                 ELSE radial_properties(Frame.paint.g),
                  parent_bbox |-> Frame.parent_bbox,
                  accumulated_transform |-> Frame.accumulated_transform,
                  pattern_ref |-> 0, entry |-> Entry, ret |-> None])
          /\ returned' = NoReturn
          /\ UNCHANGED result
       \/ /\ Frame.paint.kind \notin {"LinearGradient", "RadialGradient"}
          /\ Return(None)
    /\ UNCHANGED <<next_ref, next_name, scopes, frames, written, contents,
                   status, calls, fn_in, fn_out>>

\* create returns what create_shading_pattern returned.
create_return ==
    /\ At("create", "return")
    /\ Return(Some(Frame.ret))
    /\ UNCHANGED <<next_ref, next_name, scopes, frames, written, contents,
                   status, calls, fn_in, fn_out>>

\* any_opacity with all() in place of any().
any_opacity_all_stops(stops) == \A i \in 1..Len(stops) : stops[i].opacity < ONE

\* stops.iter().any(|stop| stop.opacity.get() < 1.0)
any_opacity(stops) == \E i \in 1..Len(stops) : stops[i].opacity < ONE

\* create_shading_pattern, lines 104-110: the pattern's reference, and the
\* soft mask if a stop is not opaque.
create_shading_pattern_start ==
    /\ At("create_shading_pattern", "start")
    /\ LET a == alloc_ref(next_ref)
           f == [Frame EXCEPT !.pattern_ref = a.ref, !.pc = "write"]
       IN  /\ next_ref' = a.next
           /\ IF any_opacity(Frame.properties.stops)
              THEN stack' = Append(SetTop(stack, f),
                       [fn |-> "get_soft_mask", pc |-> "start",
                        properties |-> Frame.properties,
                        parent_bbox |-> Frame.parent_bbox,
                        x_object_id |-> 0, shading_ref |-> 0,
                        shading_name |-> None, bbox |-> None,
                        entry |-> Entry, ret |-> None])
              ELSE stack' = SetTop(stack, f)
    /\ returned' = NoReturn
    /\ UNCHANGED <<next_name, scopes, frames, written, contents, status,
                   result, calls, fn_in, fn_out>>

\* create_shading_pattern, lines 112-135: the color function and the shading
\* pattern are written, the pattern is registered and its name returned with
\* the soft mask's.
create_shading_pattern_write ==
    /\ At("create_shading_pattern", "write")
    /\ LET soft_mask == IF any_opacity(Frame.properties.stops)
                        THEN Some(Frame.ret)
                        ELSE None
           matrix == shading_matrix(Frame.properties, Frame.parent_bbox,
                                    Frame.accumulated_transform)
           fun == get_function(Frame.properties.stops, FALSE, next_ref)
           shading_pattern ==
               [kind |-> "shading_pattern", ref |-> Frame.pattern_ref,
                shading |-> [shading_type |-> Frame.properties.shading_type,
                             color_space |-> "srgb", function |-> fun.ref,
                             coords |-> Frame.properties.coords,
                             extend |-> <<TRUE, TRUE>>],
                matrix |-> matrix]
       IN  /\ ~fun.panic
           /\ next_ref' = fun.next
           /\ written' = (written \o fun.objs) \o <<shading_pattern>>
           /\ scopes' = deferrer_add(scopes, "Pattern", next_name, Frame.pattern_ref)
           /\ next_name' = next_name + 1
           /\ Return([pattern |-> mint_name("Pattern", next_name),
                      soft_mask |-> soft_mask])
    /\ UNCHANGED <<frames, contents, status, calls, fn_in, fn_out>>

\* get_soft_mask, lines 144-148: a scope is pushed, the references of the
\* form XObject and of the shading are allocated, the shading is registered.
get_soft_mask_start ==
    /\ At("get_soft_mask", "start")
    /\ LET pushed == deferrer_push(scopes)
           x == alloc_ref(next_ref)
           sh == alloc_ref(x.next)
       IN  /\ next_ref' = sh.next
           /\ scopes' = deferrer_add(pushed, "Shading", next_name, sh.ref)
           /\ next_name' = next_name + 1
           /\ stack' = SetTop(stack,
                  [Frame EXCEPT !.pc = "shading", !.x_object_id = x.ref,
                                !.shading_ref = sh.ref,
                                !.shading_name = Some(mint_name("Shading", next_name)),
                                !.bbox = Some(PageRect)])
    /\ returned' = NoReturn
    /\ UNCHANGED <<frames, written, contents, status, result, calls, fn_in, fn_out>>

\* get_soft_mask, lines 150-166: the opacity function and the gray shading
\* are written.
get_soft_mask_shading ==
    /\ At("get_soft_mask", "shading")
    /\ LET fun == get_function(Frame.properties.stops, TRUE, next_ref)
           shading == [kind |-> "shading", ref |-> Frame.shading_ref,
                       shading_type |-> Frame.properties.shading_type,
                       color_space |-> "d65_gray", function |-> fun.ref,
                       coords |-> Frame.properties.coords,
                       extend |-> <<TRUE, TRUE>>]
       IN  /\ ~fun.panic
           /\ next_ref' = fun.next
           /\ written' = (written \o fun.objs) \o <<shading>>
    /\ stack' = Goto("x_object")
    /\ returned' = NoReturn
    /\ UNCHANGED <<next_name, scopes, frames, contents, status, result, calls,
                   fn_in, fn_out>>

\* get_soft_mask_x_object without the pop of the pushed scope.
get_soft_mask_x_object_no_pop ==
    /\ At("get_soft_mask", "x_object")
    /\ LET transform == soft_mask_transform(Frame.properties, Frame.parent_bbox)
           content == <<[op |-> "transform", m |-> transform],
                        [op |-> "shading", name |-> Frame.shading_name.some]>>
           x_object == [kind |-> "form_xobject", ref |-> Frame.x_object_id,
                        content |-> content, uses |-> names_used(content),
                        resources |-> Some(deferrer_pop_dictionary(scopes)),
                        group |-> [transparency |-> TRUE, isolated |-> FALSE,
                                   knockout |-> FALSE, color_space |-> "d65_gray"],
                        bbox |-> Frame.bbox.some]
       IN  /\ written' = Append(written, x_object)
           /\ scopes' = scopes
    /\ stack' = Goto("gs")
    /\ returned' = NoReturn
    /\ UNCHANGED <<next_ref, next_name, frames, contents, status, result,
                   calls, fn_in, fn_out>>

\* get_soft_mask, lines 168-189: the form XObject that paints the shading is
\* written; the pushed scope is popped into its resources.
get_soft_mask_x_object ==
    /\ At("get_soft_mask", "x_object")
    /\ LET transform == soft_mask_transform(Frame.properties, Frame.parent_bbox)
           content == <<[op |-> "transform", m |-> transform],
                        [op |-> "shading", name |-> Frame.shading_name.some]>>
           x_object == [kind |-> "form_xobject", ref |-> Frame.x_object_id,
                        content |-> content, uses |-> names_used(content),
                        resources |-> Some(deferrer_pop_dictionary(scopes)),
                        group |-> [transparency |-> TRUE, isolated |-> FALSE,
                                   knockout |-> FALSE, color_space |-> "d65_gray"],
                        bbox |-> Frame.bbox.some]
       IN  /\ written' = Append(written, x_object)
           /\ scopes' = deferrer_pop(scopes)
    /\ stack' = Goto("gs")
    /\ returned' = NoReturn
    /\ UNCHANGED <<next_ref, next_name, frames, contents, status, result,
                   calls, fn_in, fn_out>>

\* get_soft_mask_gs writing under the reference of the form XObject.
get_soft_mask_gs_reuses_ref ==
    /\ At("get_soft_mask", "gs")
    /\ LET a == alloc_ref(next_ref)
           gs == [kind |-> "ext_graphics", ref |-> Frame.x_object_id,
                  soft_mask |-> [subtype |-> "Luminosity",
                                 group |-> Frame.x_object_id]]
       IN  /\ next_ref' = a.next
           /\ written' = Append(written, gs)
           /\ scopes' = deferrer_add(scopes, "ExtGState", next_name, a.ref)
           /\ next_name' = next_name + 1
           /\ Return(mint_name("ExtGState", next_name))
    /\ UNCHANGED <<frames, contents, status, calls, fn_in, fn_out>>

\* get_soft_mask, lines 191-198: the soft-mask graphics state is written,
\* registered, and its name returned.
get_soft_mask_gs ==
    /\ At("get_soft_mask", "gs")
    /\ LET a == alloc_ref(next_ref)
           gs == [kind |-> "ext_graphics", ref |-> a.ref,
                  soft_mask |-> [subtype |-> "Luminosity",
                                 group |-> Frame.x_object_id]]
       IN  /\ next_ref' = a.next
           /\ written' = Append(written, gs)
           /\ scopes' = deferrer_add(scopes, "ExtGState", next_name, a.ref)
           /\ next_name' = next_name + 1
           /\ Return(mint_name("ExtGState", next_name))
    /\ UNCHANGED <<frames, contents, status, calls, fn_in, fn_out>>

(***************************************************************************)
(* render/path.rs: render, set_stroke, set_fill, finish_path.              *)
(***************************************************************************)
Op(name) == [op |-> name]

\* The environment calls render(path, ..) with an empty content stream.
CallRender ==
    /\ Idle
    /\ calls < MaxCalls
    /\ \E path \in Paths :
          stack' = <<[fn |-> "render", pc |-> "start", path |-> path,
                      entry |-> [Entry EXCEPT !.content_len = 0],
                      ret |-> None]>>
    /\ contents' = << <<>> >>
    /\ calls' = calls + 1
    /\ returned' = NoReturn
    /\ UNCHANGED <<next_ref, next_name, scopes, frames, written, status,
                   result, fn_in, fn_out>>

\* Option::unwrap_or
unwrap_or(o, d) == IF IsSome(o) THEN o.some ELSE d
opacity_of(o) == IF IsSome(o) THEN Some(o.some.opacity) ELSE None

\* render, lines 24-42: a hidden path returns at once; for a visible one the
\* frame is pushed, the path's transform appended, the state saved and the
\* opacities registered.
render_start ==
    /\ At("render", "start")
    /\ LET path == Frame.path
           stroke_opacity == opacity_of(path.stroke)
           fill_opacity == opacity_of(path.fill)
           fr == frame_append_transform(frame_push(frames), path.transform)
           head == <<Op("save_state"),
                     [op |-> "transform", m |-> frame_transform(fr)],
                     [op |-> "set_fill_color_space", space |-> "SRGB"],
                     [op |-> "set_stroke_color_space", space |-> "SRGB"]>>
           a == alloc_ref(next_ref)
       IN  \/ /\ path.visibility # "Visible"
              /\ Return(None)
              /\ UNCHANGED <<next_ref, next_name, scopes, frames, contents>>
           \/ /\ path.visibility = "Visible"
              /\ frames' = fr
              /\ IF unwrap_or(stroke_opacity, ONE) # ONE
                    \/ unwrap_or(fill_opacity, ONE) # ONE
                 THEN /\ next_ref' = a.next
                      /\ scopes' = deferrer_add(scopes, "ExtGState", next_name, a.ref)
                      /\ next_name' = next_name + 1
                      /\ Emit(Append(head,
                              [op |-> "set_parameters",
                               name |-> mint_name("ExtGState", next_name)]))
                 ELSE /\ Emit(head)
                      /\ UNCHANGED <<next_ref, next_name, scopes>>
              /\ stack' = Goto("set_stroke")
              /\ returned' = NoReturn
              /\ UNCHANGED result
    /\ UNCHANGED <<written, status, calls, fn_in, fn_out>>

line_cap(c) ==
    CASE c = "Butt" -> "ButtCap" [] c = "Round" -> "RoundCap"
      [] c = "Square" -> "ProjectingSquareCap"

line_join(j) ==
    CASE j = "Miter" -> "MiterJoin" [] j = "Round" -> "RoundJoin"
      [] j = "Bevel" -> "BevelJoin"

\* The operators of the stroke's style, common to both renderers.
stroke_style(stroke) ==
    <<[op |-> "set_line_width", v |-> stroke.width],
      [op |-> "set_miter_limit", v |-> stroke.miterlimit],
      [op |-> "set_line_cap", v |-> line_cap(stroke.linecap)],
      [op |-> "set_line_join", v |-> line_join(stroke.linejoin)]>>
    \o (IF IsSome(stroke.dasharray)
        THEN <<[op |-> "set_dash_pattern", array |-> stroke.dasharray.some,
                offset |-> stroke.dashoffset]>>
        ELSE <<>>)

\* render/path.rs set_stroke: a pattern paint is todo!(), a gradient paint
\* sets nothing.
set_stroke(stroke) ==
    CASE stroke.paint.kind = "Color" ->
             [panic |-> FALSE,
              ops |-> Append(stroke_style(stroke),
                             [op |-> "set_stroke_color", c |-> stroke.paint.c])]
      [] stroke.paint.kind = "Pattern" -> [panic |-> TRUE, ops |-> <<>>]
      [] OTHER -> [panic |-> FALSE, ops |-> stroke_style(stroke)]

\* render, lines 44-46.
render_set_stroke ==
    /\ At("render", "set_stroke")
    /\ IF IsSome(Frame.path.stroke)
       THEN LET r == set_stroke(Frame.path.stroke.some)
            IN  IF r.panic THEN Panic
                ELSE /\ Emit(r.ops)
                     /\ stack' = Goto("set_fill")
                     /\ returned' = NoReturn
                     /\ UNCHANGED <<next_ref, next_name, scopes, frames,
                                    written, status, result, calls, fn_in, fn_out>>
       ELSE /\ stack' = Goto("set_fill")
            /\ returned' = NoReturn
            /\ UNCHANGED <<next_ref, next_name, scopes, frames, written,
                           contents, status, result, calls, fn_in, fn_out>>

\* render, lines 48-50, and set_fill up to the call of create_pattern: a
\* color is set, a pattern is compiled, any other paint sets nothing.
render_set_fill ==
    /\ At("render", "set_fill")
    /\ LET fill == Frame.path.fill
       IN  \/ /\ ~IsSome(fill)
              /\ stack' = Goto("finish")
              /\ UNCHANGED contents
           \/ /\ IsSome(fill) /\ fill.some.paint.kind = "Color"
              /\ Emit(<<[op |-> "set_fill_color", c |-> fill.some.paint.c]>>)
              /\ stack' = Goto("finish")
           \/ /\ IsSome(fill) /\ fill.some.paint.kind = "Pattern"
              /\ stack' = Append(Goto("set_fill_pattern"),
                     [fn |-> "create_pattern", pc |-> "start",
                      pattern |-> fill.some.paint.p,
                      pattern_name |-> None, pattern_id |-> 0,
                      parent_transform |-> None,
                      entry |-> Entry, ret |-> None])
              /\ UNCHANGED contents
           \/ /\ IsSome(fill) /\ fill.some.paint.kind \notin {"Color", "Pattern"}
              /\ stack' = Goto("finish")
              /\ UNCHANGED contents
    /\ returned' = NoReturn
    /\ UNCHANGED <<next_ref, next_name, scopes, frames, written, status,
                   result, calls, fn_in, fn_out>>

\* set_fill, lines 126-127: the pattern create_pattern returned is selected.
render_set_fill_pattern ==
    /\ At("render", "set_fill_pattern")
    /\ Emit(<<[op |-> "set_fill_color_space", space |-> "Pattern"],
              [op |-> "set_fill_pattern", name |-> Frame.ret]>>)
    /\ stack' = Goto("finish")
    /\ returned' = NoReturn
    /\ UNCHANGED <<next_ref, next_name, scopes, frames, written, status,
                   result, calls, fn_in, fn_out>>

\* draw_path: one operator per segment, in order.
draw_path(segments) ==
    [i \in 1..Len(segments) |->
        CASE segments[i].kind = "MoveTo" -> Op("move_to")
          [] segments[i].kind = "LineTo" -> Op("line_to")
          [] segments[i].kind = "CurveTo" -> Op("cubic_to")
          [] segments[i].kind = "ClosePath" -> Op("close_path")]

fill_rule(fill) == IF IsSome(fill) THEN Some(fill.some.rule) ELSE None

\* finish_path with the fill rule ignored.
finish_path_ignores_rule(stroke, fill) ==
    IF IsSome(stroke)
    THEN (IF IsSome(fill) THEN Op("fill_nonzero_and_stroke") ELSE Op("stroke"))
    ELSE (IF IsSome(fill) THEN Op("fill_nonzero") ELSE Op("end_path"))

\* render/path.rs finish_path.
finish_path(stroke, fill) ==
    CASE IsSome(stroke) /\ fill_rule(fill) = Some("NonZero") -> Op("fill_nonzero_and_stroke")
      [] IsSome(stroke) /\ fill_rule(fill) = Some("EvenOdd") -> Op("fill_even_odd_and_stroke")
      [] ~IsSome(stroke) /\ fill_rule(fill) = Some("NonZero") -> Op("fill_nonzero")
      [] ~IsSome(stroke) /\ fill_rule(fill) = Some("EvenOdd") -> Op("fill_even_odd")
      [] IsSome(stroke) /\ fill_rule(fill) = None -> Op("stroke")
      [] ~IsSome(stroke) /\ fill_rule(fill) = None -> Op("end_path")

\* render_finish without the pop of the context frame.
render_finish_keeps_frame ==
    /\ At("render", "finish")
    /\ Emit(draw_path(Frame.path.data)
            \o <<finish_path(Frame.path.stroke, Frame.path.fill),
                 Op("restore_state")>>)
    /\ UNCHANGED frames
    /\ Return(None)
    /\ UNCHANGED <<next_ref, next_name, scopes, written, status, calls,
                   fn_in, fn_out>>

\* render, lines 52-56: the geometry, the painting operator, restore_state
\* and the pop of the frame.
render_finish ==
    /\ At("render", "finish")
    /\ Emit(draw_path(Frame.path.data)
            \o <<finish_path(Frame.path.stroke, Frame.path.fill),
                 Op("restore_state")>>)
    /\ frames' = frame_pop(frames)
    /\ Return(None)
    /\ UNCHANGED <<next_ref, next_name, scopes, written, status, calls,
                   fn_in, fn_out>>

(***************************************************************************)
(* render/path.rs: create_pattern, and the group renderer it calls.        *)
(***************************************************************************)
\* pattern.rect.as_pdf_rect(&Transform::default())
as_pdf_rect(rect) ==
    [x1 |-> rect.x, y1 |-> rect.y, x2 |-> rect.x + rect.w, y2 |-> rect.y + rect.h]

\* create_pattern_start with the scope pushed before the pattern is registered.
create_pattern_start_push_first ==
    /\ At("create_pattern", "start")
    /\ LET a == alloc_ref(next_ref)
       IN  /\ next_ref' = a.next
           /\ scopes' = deferrer_add(deferrer_push(scopes), "Pattern", next_name, a.ref)
           /\ next_name' = next_name + 1
           /\ stack' = SetTop(stack,
                  [Frame EXCEPT !.pc = "frame",
                                !.pattern_name = Some(mint_name("Pattern", next_name)),
                                !.pattern_id = a.ref])
    /\ returned' = NoReturn
    /\ UNCHANGED <<frames, written, contents, status, result, calls, fn_in, fn_out>>

\* create_pattern, lines 139-140: the pattern is registered in the current
\* scope, then a scope is pushed for the pattern's content.
create_pattern_start ==
    /\ At("create_pattern", "start")
    /\ LET a == alloc_ref(next_ref)
       IN  /\ next_ref' = a.next
           /\ scopes' = deferrer_push(
                  deferrer_add(scopes, "Pattern", next_name, a.ref))
           /\ next_name' = next_name + 1
           /\ stack' = SetTop(stack,
                  [Frame EXCEPT !.pc = "frame",
                                !.pattern_name = Some(mint_name("Pattern", next_name)),
                                !.pattern_id = a.ref])
    /\ returned' = NoReturn
    /\ UNCHANGED <<frames, written, contents, status, result, calls, fn_in, fn_out>>

\* create_pattern, lines 142-154: the placement transform is taken from the
\* current frame, a frame is pushed and reset for the pattern's content, and
\* the content is rendered by create_x_object.
create_pattern_frame ==
    /\ At("create_pattern", "frame")
    /\ Frame.pattern.root.kind = "Group"
    /\ LET pattern == Frame.pattern
           parent_transform == pre_concat(frame_transform(frames), pattern.transform)
           reset == frame_set_transform(frame_push(frames), Transform_default)
           fitted == IF IsSome(pattern.view_box)
                     THEN frame_append_transform(reset, pattern.view_box.some)
                     ELSE reset
       IN  /\ frames' = frame_set_render_context(fitted, "Pattern")
           /\ stack' = Append(
                  SetTop(stack, [Frame EXCEPT !.pc = "write",
                                   !.parent_transform = Some(parent_transform)]),
                  [fn |-> "create_x_object", pc |-> "start",
                   group |-> pattern.root, name |-> None, reference |-> 0,
                   entry |-> Entry, ret |-> None])
    /\ returned' = NoReturn
    /\ UNCHANGED <<next_ref, next_name, scopes, written, contents, status,
                   result, calls, fn_in, fn_out>>

\* create_pattern, lines 157-178: the tiling pattern is written with the
\* popped scope as its resources, the frame is popped and the name returned.
create_pattern_write ==
    /\ At("create_pattern", "write")
    /\ LET pattern_content == <<[op |-> "x_object", name |-> Frame.ret.name]>>
           final_bbox == as_pdf_rect(Frame.pattern.rect)
           tiling_pattern ==
               [kind |-> "tiling_pattern", ref |-> Frame.pattern_id,
                uses |-> names_used(pattern_content),
                resources |-> Some(deferrer_pop_dictionary(scopes)),
                tiling_type |-> "ConstantSpacing", paint_type |-> "Colored",
                bbox |-> final_bbox, matrix |-> Frame.parent_transform.some,
                x_step |-> final_bbox.x2 - final_bbox.x1,
                y_step |-> final_bbox.y2 - final_bbox.y1]
       IN  /\ written' = Append(written, tiling_pattern)
           /\ scopes' = deferrer_pop(scopes)
    /\ frames' = frame_pop(frames)
    /\ Return(Frame.pattern_name.some)
    /\ UNCHANGED <<next_ref, next_name, contents, status, calls, fn_in, fn_out>>

\* create_x_object: the group is registered as an XObject of the current
\* scope; its children are rendered into a content stream of their own, in
\* a frame of their own.
create_x_object_start ==
    /\ At("create_x_object", "start")
    /\ LET a == alloc_ref(next_ref)
       IN  /\ next_ref' = a.next
           /\ scopes' = deferrer_add(scopes, "XObject", next_name, a.ref)
           /\ next_name' = next_name + 1
           /\ stack' = SetTop(stack,
                  [Frame EXCEPT !.pc = "children",
                                !.name = Some(mint_name("XObject", next_name)),
                                !.reference = a.ref])
    /\ frames' = frame_append_transform(frame_push(frames), Frame.group.transform)
    /\ contents' = Append(contents, <<>>)
    /\ returned' = NoReturn
    /\ UNCHANGED <<written, status, result, calls, fn_in, fn_out>>

\* The next child of the group, a path, is rendered.
create_x_object_child ==
    /\ At("create_x_object", "children")
    /\ calls < MaxCalls
    /\ \E path \in Paths :
          stack' = Append(stack,
              [fn |-> "render", pc |-> "start", path |-> path,
               entry |-> Entry, ret |-> None])
    /\ calls' = calls + 1
    /\ returned' = NoReturn
    /\ UNCHANGED <<next_ref, next_name, scopes, frames, written, contents,
                   status, result, fn_in, fn_out>>

\* All children are rendered: the form XObject is written.
create_x_object_finish ==
    /\ At("create_x_object", "children")
    /\ written' = Append(written,
           [kind |-> "form_xobject", ref |-> Frame.reference,
            uses |-> names_used(Top(contents)), resources |-> None,
            group |-> [transparency |-> TRUE, isolated |-> FALSE,
                       knockout |-> FALSE, color_space |-> "srgb"]])
    /\ contents' = Pop(contents)
    /\ frames' = frame_pop(frames)
    /\ Return([name |-> Frame.name.some, reference |-> Frame.reference])
    /\ UNCHANGED <<next_ref, next_name, scopes, status, calls, fn_in, fn_out>>

(***************************************************************************)
(* write/path.rs: the older path renderer.                                 *)
(***************************************************************************)
\* write/path.rs set_stroke: any paint but a color is todo!().
write_set_stroke(stroke) ==
    CASE stroke.paint.kind = "Color" ->
             [panic |-> FALSE,
              ops |-> Append(stroke_style(stroke),
                             [op |-> "set_stroke_color", c |-> stroke.paint.c])]
      [] OTHER -> [panic |-> TRUE, ops |-> <<>>]

\* write/path.rs set_fill: any paint but a color sets nothing.
write_set_fill(fill) ==
    CASE fill.paint.kind = "Color" -> <<[op |-> "set_fill_color", c |-> fill.paint.c]>>
      [] OTHER -> <<>>

\* write/path.rs finish_path.
write_finish_path(stroke, fill) ==
    CASE IsSome(stroke) /\ fill_rule(fill) = Some("NonZero") -> Op("fill_nonzero_and_stroke")
      [] IsSome(stroke) /\ fill_rule(fill) = Some("EvenOdd") -> Op("fill_even_odd_and_stroke")
      [] ~IsSome(stroke) /\ fill_rule(fill) = Some("NonZero") -> Op("fill_nonzero")
      [] ~IsSome(stroke) /\ fill_rule(fill) = Some("EvenOdd") -> Op("fill_even_odd")
      [] IsSome(stroke) -> Op("stroke")
      [] ~IsSome(stroke) -> Op("end_path")

\* impl Render for usvg::Path: the operators of one path, or a panic.
write_render(path) ==
    IF path.visibility # "Visible" THEN [panic |-> FALSE, ops |-> <<>>]
    ELSE LET stroke == IF IsSome(path.stroke)
                       THEN write_set_stroke(path.stroke.some)
                       ELSE [panic |-> FALSE, ops |-> <<>>]
             fill == IF IsSome(path.fill) THEN write_set_fill(path.fill.some)
                     ELSE <<>>
         IN  [panic |-> stroke.panic,
              ops |-> <<Op("save_state"),
                        [op |-> "transform", m |-> path.transform],
                        [op |-> "set_fill_color_space", space |-> "DeviceRgb"],
                        [op |-> "set_stroke_color_space", space |-> "DeviceRgb"]>>
                      \o stroke.ops \o fill \o draw_path(path.data)
                      \o <<write_finish_path(path.stroke, path.fill),
                           Op("restore_state")>>]

\* The environment renders a path with the older renderer, into an empty
\* content stream.
WriteRender ==
    /\ Idle
    /\ calls < MaxCalls
    /\ \E path \in Paths :
          LET r == write_render(path)
              frame == [fn |-> "write_render", pc |-> "start", path |-> path,
                        entry |-> [Entry EXCEPT !.content_len = 0],
                        ret |-> None]
          IN  IF r.panic
              THEN /\ status' = "panicked"
                   /\ stack' = <<frame>>
                   /\ returned' = NoReturn
                   /\ contents' = << <<>> >>
              ELSE /\ contents' = <<r.ops>>
                   /\ returned' = [fn |-> "write_render", frame |-> frame,
                                   value |-> None]
                   /\ UNCHANGED <<status, stack>>
    /\ calls' = calls + 1
    /\ UNCHANGED <<next_ref, next_name, scopes, frames, written, result,
                   fn_in, fn_out>>

(***************************************************************************)
(* The program.                                                            *)
(***************************************************************************)
Init ==
    /\ next_ref = 1
    /\ next_name = 0
    /\ scopes = << <<>> >>
    /\ frames = <<[transform |-> Transform_default, render_context |-> "Normal"]>>
    /\ written = <<>>
    /\ contents = << <<>> >>
    /\ stack = <<>>
    /\ returned = NoReturn
    /\ status = "ok"
    /\ result = None
    /\ calls = 0
    /\ fn_in = None
    /\ fn_out = None

Next ==
    \/ CallCreate
    \/ create_match
    \/ create_return
    \/ create_shading_pattern_start
    \/ create_shading_pattern_write
    \/ get_soft_mask_start
    \/ get_soft_mask_shading
    \/ get_soft_mask_x_object
    \/ get_soft_mask_gs
    \/ CallRender
    \/ render_start
    \/ render_set_stroke
    \/ render_set_fill
    \/ render_set_fill_pattern
    \/ render_finish
    \/ create_pattern_start
    \/ create_pattern_frame
    \/ create_pattern_write
    \/ create_x_object_start
    \/ create_x_object_child
    \/ create_x_object_finish
    \/ WriteRender

Spec == Init /\ [][Next]_vars

(***************************************************************************)
(* The functions of gradient.rs applied to bounded inputs.                 *)
(***************************************************************************)
FnStops == {s \in SeqsOf(UsvgStop, 1, MaxStops) : Sorted(s)}
FnTransforms == Transforms \cup {Shear}

FnInputs ==
    [op : {"pad_stops"}, stops : FnStops]
    \cup [op : {"get_function"}, stops : FnStops, use_opacities : BOOLEAN,
          next : {1}]
    \cup [op : {"shading_matrix"},
          properties : [transform : FnTransforms, units : UnitsSet],
          parent_bbox : BBoxes, accumulated_transform : FnTransforms]

InitFn ==
    /\ Init!1 /\ Init!2 /\ Init!3 /\ Init!4 /\ Init!5 /\ Init!6 /\ Init!7
    /\ Init!8 /\ Init!9 /\ Init!10 /\ Init!11
    /\ fn_in \in FnInputs
    /\ fn_out = None

\* The padding of get_function, applied once and applied again to its result.
apply_pad_stops ==
    /\ fn_in.op = "pad_stops" /\ fn_out = None
    /\ fn_out' = Some([padded |-> pad_stops(fn_in.stops),
                       twice |-> pad_stops(pad_stops(fn_in.stops))])
    /\ UNCHANGED <<machine_vars, fn_in>>

apply_get_function ==
    /\ fn_in.op = "get_function" /\ fn_out = None
    /\ fn_out' = Some(get_function(fn_in.stops, fn_in.use_opacities, fn_in.next))
    /\ UNCHANGED <<machine_vars, fn_in>>

apply_shading_matrix ==
    /\ fn_in.op = "shading_matrix" /\ fn_out = None
    /\ fn_out' = Some([matrix |-> shading_matrix(fn_in.properties, fn_in.parent_bbox,
                                                 fn_in.accumulated_transform)])
    /\ UNCHANGED <<machine_vars, fn_in>>

NextFn ==
    \/ apply_pad_stops
    \/ apply_get_function
    \/ apply_shading_matrix

SpecFn == InitFn /\ [][NextFn]_vars

Applied(op) == fn_in # None /\ fn_in.op = op /\ fn_out # None

(***************************************************************************)
(* C3: the interpolation functions built for a (padded) stop sequence.     *)
(***************************************************************************)
IsExponential(o, first_stop, second_stop) ==
    /\ o.kind = "exponential_function"
    /\ o.c0 = first_stop.color
    /\ o.c1 = second_stop.color

\* C3: for the k stops handed to function(), k = 2 builds exactly one
\* exponential function and no stitching function; k > 2 builds k-1
\* exponential functions, one per adjacent pair in order, and one stitching
\* function over them whose bounds are the offsets of stops 2..k-1 and whose
\* encode array is k-1 pairs [0, 1].
C3_FunctionShape ==
    Applied("get_function") =>
        LET h == fn_out.some.handed
            objs == fn_out.some.objs
            k == Len(h)
        IN  /\ ~fn_out.some.panic
            /\ k = 2 =>
                  /\ Len(objs) = 1
                  /\ IsExponential(objs[1], h[1], h[2])
                  /\ fn_out.some.ref = objs[1].ref
            /\ k > 2 =>
                  /\ Len(objs) = k
                  /\ \A i \in 1..(k - 1) : IsExponential(objs[i], h[i], h[i + 1])
                  /\ objs[k].kind = "stitching_function"
                  /\ objs[k].functions = [i \in 1..(k - 1) |-> objs[i].ref]
                  /\ objs[k].bounds = [i \in 1..(k - 2) |-> h[i + 1].offset]
                  /\ objs[k].encode =
                        [i \in 1..(2 * (k - 1)) |-> IF i % 2 = 1 THEN ZERO ELSE ONE]
                  /\ fn_out.some.ref = objs[k].ref

C3_Witness ==
    /\ Applied("get_function")
    /\ Len(fn_out.some.handed) = 4
    /\ Len(fn_out.some.objs) = 4
    /\ Len(fn_out.some.objs[4].bounds) = 2

(***************************************************************************)
(* C4: the padding of the stops.                                           *)
(***************************************************************************)
SameColor(a, b) == a.color = b.color /\ a.opacity = b.opacity

Normalize(bbox, p) == <<bbox.x + bbox.w * p[1], bbox.y + bbox.h * p[2]>>

\* C6: the shading pattern's matrix applies the gradient's transform first,
\* then (for object-bounding-box units only) the bounding-box normalization,
\* then the accumulated transform.
C6_MatrixOrder ==
    Applied("shading_matrix") =>
        \A p \in ProbePoints :
            LET local == map_point(fn_in.properties.transform, p)
                boxed == IF fn_in.properties.units = "ObjectBoundingBox"
                         THEN Normalize(fn_in.parent_bbox, local)
                         ELSE local
            IN  map_point(fn_out.some.matrix, p)
                    = map_point(fn_in.accumulated_transform, boxed)

C6_Witness ==
    /\ Applied("shading_matrix")
    /\ fn_in.properties.units = "ObjectBoundingBox"
    /\ fn_in.properties.transform = Rot90
    /\ fn_in.accumulated_transform = Scale2
    /\ fn_in.parent_bbox.w = 2

(***************************************************************************)
(* C1: resource scopes are pushed and popped in pairs.                     *)
(***************************************************************************)
Compilers == {"create_pattern", "get_soft_mask"}

\* The scope that create_pattern / get_soft_mask pushed is open while the
\* call is between its push and its pop.
HoldsScope(f) ==
    \/ f.fn = "create_pattern" /\ f.pc \in {"frame", "write"}
    \/ f.fn = "get_soft_mask" /\ f.pc \in {"shading", "x_object"}

\* C1: while create_pattern or get_soft_mask runs, the number of open scopes
\* never drops below the number on entry; the call itself holds exactly one
\* scope between its push and its pop and none otherwise; and when it
\* returns the number is what it was on entry.
C1_ScopesBalanced ==
    /\ \A i \in 1..Len(stack) :
          stack[i].fn \in Compilers =>
              /\ Len(scopes) >= stack[i].entry.scopes
              /\ (i = Len(stack) /\ status = "ok") =>
                    Len(scopes) = stack[i].entry.scopes
                                  + (IF HoldsScope(stack[i]) THEN 1 ELSE 0)
    /\ returned.fn \in Compilers =>
          Len(scopes) = returned.frame.entry.scopes

\* A pattern compiled inside another pattern's scope has returned.
C1_Witness ==
    /\ returned.fn = "create_pattern"
    /\ returned.frame.entry.scopes = 2
    /\ \E i \in 1..Len(stack) : stack[i].fn = "create_pattern"

(***************************************************************************)
(* C2: names are written to the dictionary of the object that uses them.   *)
(***************************************************************************)
HasDictionary(o) == "resources" \in DOMAIN o /\ IsSome(o.resources)
DictionaryNames(o) == names_of(o.resources.some)
WithDictionary == {i \in 1..Len(written) : HasDictionary(written[i])}

\* C2: the names used by the content of a soft mask's form XObject and of a
\* tiling pattern are in the dictionary popped into that object; for the
\* soft mask the dictionary holds the shading's name and nothing else; the
\* names used by the pattern's content XObject are in the tiling pattern's
\* dictionary; a name written to one dictionary is in no other dictionary
\* and in no open scope; and the name a compilation returns is registered
\* in the scope that was innermost when it was entered.
C2_NamesInOwnDictionary ==
    /\ \A i \in WithDictionary :
          /\ written[i].uses \subseteq DictionaryNames(written[i])
          /\ written[i].kind = "form_xobject" =>
                DictionaryNames(written[i]) = written[i].uses
          /\ \A j \in WithDictionary :
                i # j => DictionaryNames(written[i]) \cap DictionaryNames(written[j]) = {}
          /\ \A k \in 1..Len(scopes) :
                DictionaryNames(written[i]) \cap names_of(scopes[k]) = {}
    /\ returned.fn = "create_pattern" =>
          /\ returned.value \in names_of(scopes[returned.frame.entry.scopes])
          /\ \E x \in 1..Len(written) :
                /\ written[x].ref = returned.frame.ret.reference
                /\ written[x].uses \subseteq DictionaryNames(Top(written))
    /\ returned.fn = "get_soft_mask" =>
          returned.value \in names_of(scopes[returned.frame.entry.scopes])
    /\ returned.fn = "create_shading_pattern" =>
          returned.value.pattern \in names_of(scopes[returned.frame.entry.scopes])

\* A pattern whose content registered a name of its own has returned.
C2_Witness ==
    /\ returned.fn = "create_pattern"
    /\ Top(written).kind = "tiling_pattern"
    /\ Cardinality(DictionaryNames(Top(written))) = 2

(***************************************************************************)
(* C5: what gradient::create returns and writes.                           *)
(***************************************************************************)
\* The objects written since the call of frame f was entered.
WrittenSince(f) == SubSeq(written, f.entry.written + 1, Len(written))
CountOf(objs, P(_)) == Cardinality({i \in 1..Len(objs) : P(objs[i])})

IsGrayShading(o) == o.kind = "shading" /\ o.color_space = "d65_gray"
IsTransparencyGroup(o) ==
    o.kind = "form_xobject" /\ o.group.transparency /\ o.group.color_space = "d65_gray"
IsLuminosityMask(o) ==
    o.kind = "ext_graphics" /\ o.soft_mask.subtype = "Luminosity"
IsMaskObject(o) == IsGrayShading(o) \/ IsTransparencyGroup(o) \/ IsLuminosityMask(o)

IsGradient(paint) == paint.kind \in {"LinearGradient", "RadialGradient"}
Opaque(paint) == \A i \in 1..Len(paint.g.stops) : paint.g.stops[i].opacity = ONE

\* C5: create returns None for a paint that is no gradient; for a gradient
\* it returns a pattern name, with no mask when every stop is opaque and
\* with a mask otherwise; with a mask exactly one gray shading, one
\* transparency group and one luminosity soft mask are written, without a
\* mask none of them is written and the call never opens a scope.
C5_CreateResult ==
    /\ returned.fn = "create" =>
          LET paint == returned.frame.paint
              v == returned.value
              objs == WrittenSince(returned.frame)
          IN  /\ ~IsGradient(paint) => v = None
              /\ IsGradient(paint) =>
                    /\ IsSome(v)
                    /\ v.some.pattern \in names_of(Top(scopes))
                    /\ IsSome(v.some.soft_mask) = ~Opaque(paint)
                    /\ IsSome(v.some.soft_mask) =>
                          /\ CountOf(objs, IsGrayShading) = 1
                          /\ CountOf(objs, IsTransparencyGroup) = 1
                          /\ CountOf(objs, IsLuminosityMask) = 1
                    /\ ~IsSome(v.some.soft_mask) => CountOf(objs, IsMaskObject) = 0
    /\ (Len(stack) > 0 /\ stack[1].fn = "create"
        /\ (IsGradient(stack[1].paint) => Opaque(stack[1].paint))) =>
          Len(scopes) = stack[1].entry.scopes

C5_Witness ==
    /\ returned.fn = "create"
    /\ IsSome(returned.value)
    /\ IsSome(returned.value.some.soft_mask)
    /\ \E i \in 1..Len(returned.frame.paint.g.stops) :
          returned.frame.paint.g.stops[i].opacity = ONE

(***************************************************************************)
(* C7, C8: the operators of a rendered path.                               *)
(***************************************************************************)
Renderers == {"render", "write_render"}
PaintingOps ==
    {"fill_nonzero_and_stroke", "fill_even_odd_and_stroke", "fill_nonzero",
     "fill_even_odd", "stroke", "end_path"}
GeometryOps == {"move_to", "line_to", "cubic_to", "close_path"}
FillingOps ==
    {"fill_nonzero_and_stroke", "fill_even_odd_and_stroke", "fill_nonzero",
     "fill_even_odd"}
StrokingOps == {"fill_nonzero_and_stroke", "fill_even_odd_and_stroke", "stroke"}

\* A visible path was rendered in the last step.
Rendered == returned.fn \in Renderers /\ returned.frame.path.visibility = "Visible"

\* The operators the render that just returned added to its content stream.
RenderedOps ==
    SubSeq(Top(contents), returned.frame.entry.content_len + 1, Len(Top(contents)))

\* The painting operator the stroke and the fill rule call for.
ExpectedPaintingOp(path) ==
    LET stroked == IsSome(path.stroke)
        rule == IF IsSome(path.fill) THEN path.fill.some.rule ELSE "none"
    IN  CASE stroked /\ rule = "NonZero" -> "fill_nonzero_and_stroke"
          [] stroked /\ rule = "EvenOdd" -> "fill_even_odd_and_stroke"
          [] ~stroked /\ rule = "NonZero" -> "fill_nonzero"
          [] ~stroked /\ rule = "EvenOdd" -> "fill_even_odd"
          [] stroked /\ rule = "none" -> "stroke"
          [] ~stroked /\ rule = "none" -> "end_path"

\* C7: a rendered path has exactly one painting operator, the one its stroke
\* and fill rule call for, right after its geometry operators and right
\* before restore_state, whichever renderer rendered it.
C7_PaintingOperator ==
    Rendered =>
        LET ops == RenderedOps
            n == Len(ops)
            g == Len(returned.frame.path.data)
        IN  /\ n >= g + 2
            /\ ops[n].op = "restore_state"
            /\ ops[n - 1].op = ExpectedPaintingOp(returned.frame.path)
            /\ {i \in 1..n : ops[i].op \in PaintingOps} = {n - 1}
            /\ {i \in 1..n : ops[i].op \in GeometryOps} = (n - 1 - g)..(n - 2)

C7_Witness ==
    /\ returned.fn = "render"
    /\ Rendered
    /\ IsSome(returned.frame.path.stroke)
    /\ IsSome(returned.frame.path.fill)
    /\ returned.frame.path.fill.some.rule = "EvenOdd"
    /\ \E i \in 1..Len(RenderedOps) : RenderedOps[i].op = "fill_even_odd_and_stroke"

\* C8: a rendered path whose painting operator fills has set a fill paint,
\* and one whose painting operator strokes has set a stroke paint.
C8_NoPaintDropped ==
    Rendered =>
        LET ops == RenderedOps
            used == {ops[i].op : i \in 1..Len(ops)}
        IN  /\ used \cap FillingOps # {} =>
                  used \cap {"set_fill_color", "set_fill_pattern"} # {}
            /\ used \cap StrokingOps # {} =>
                  used \cap {"set_stroke_color", "set_stroke_pattern"} # {}

(***************************************************************************)
(* C9: references.                                                         *)
(***************************************************************************)
WrittenRefs == {written[i].ref : i \in 1..Len(written)}

\* The references an object of the gradient compiler points to.
RefsIn(o) ==
    CASE o.kind = "shading_pattern" -> {o.shading.function}
      [] o.kind = "shading" -> {o.function}
      [] o.kind = "stitching_function" -> {o.functions[i] : i \in 1..Len(o.functions)}
      [] o.kind = "ext_graphics" -> {o.soft_mask.group}
      [] o.kind = "form_xobject" /\ HasDictionary(o) -> refs_of(o.resources.some)
      [] OTHER -> {}

\* The reference registered in the innermost scope under name.
RegisteredRef(name) ==
    {Top(scopes)[i].ref : i \in {j \in 1..Len(Top(scopes)) : Top(scopes)[j].name = name}}

\* C9: no two objects are written under the same reference, every object is
\* written under a reference that was allocated, every reference an object
\* of the gradient compiler points to is the reference of a written object,
\* and so are the references registered under the names create returns.
C9_References ==
    /\ \A i, j \in 1..Len(written) : written[i].ref = written[j].ref => i = j
    /\ \A i \in 1..Len(written) :
          /\ written[i].ref \in 1..(next_ref - 1)
          /\ RefsIn(written[i]) \subseteq WrittenRefs
    /\ (returned.fn = "create" /\ IsSome(returned.value)) =>
          LET v == returned.value.some
          IN  /\ RegisteredRef(v.pattern) # {}
              /\ RegisteredRef(v.pattern) \subseteq WrittenRefs
              /\ IsSome(v.soft_mask) =>
                    /\ RegisteredRef(v.soft_mask.some) # {}
                    /\ RegisteredRef(v.soft_mask.some) \subseteq WrittenRefs

\* The second gradient of a document, with a soft mask and a stitching
\* function, has been compiled.
C9_Witness ==
    /\ returned.fn = "create"
    /\ IsSome(returned.value)
    /\ IsSome(returned.value.some.soft_mask)
    /\ Cardinality({i \in 1..Len(written) : written[i].kind = "shading_pattern"}) = 2
    /\ \E i \in 1..Len(written) : written[i].kind = "stitching_function"

(***************************************************************************)
(* C10: the transform frame.                                               *)
(***************************************************************************)
\* C10: when render or create_pattern returns, the stack of transform frames
\* is what it was when the call was entered: the same depth and the same
\* transforms.
C10_FramesRestored ==
    returned.fn \in {"render", "create_pattern"} =>
        /\ Len(frames) = Len(returned.frame.entry.frames)
        /\ frame_transform(frames) = frame_transform(returned.frame.entry.frames)
        /\ frames = returned.frame.entry.frames

\* A path filled with a pattern that has a view box was rendered inside
\* another pattern.
C10_Witness ==
    /\ returned.fn = "render"
    /\ Rendered
    /\ IsSome(returned.frame.path.fill)
    /\ returned.frame.path.fill.some.paint.kind = "Pattern"
    /\ IsSome(returned.frame.path.fill.some.paint.p.view_box)
    /\ Len(frames) > 1

(***************************************************************************)
(* C11: the transform of the soft mask against the matrix of the pattern.  *)
(***************************************************************************)
MaskGroups(objs) == {i \in 1..Len(objs) : IsTransparencyGroup(objs[i])}
ShadingPatterns(objs) == {i \in 1..Len(objs) : objs[i].kind = "shading_pattern"}

\* The transform operator that opens the content of a mask's form XObject.
MaskTransform(o) == o.content[1].m

\* C11: for an object-bounding-box gradient compiled with a soft mask, the
\* transform of the mask's gray shading maps every point as the shading
\* pattern's matrix does before the accumulated transform is applied: the
\* bounding-box normalization and the gradient's transform are composed in
\* the same order in both.
C11_MaskMapping ==
    (/\ returned.fn = "create"
     /\ IsSome(returned.value)
     /\ IsSome(returned.value.some.soft_mask)
     /\ returned.frame.paint.g.units = "ObjectBoundingBox") =>
        LET objs == WrittenSince(returned.frame)
        IN  \A i \in MaskGroups(objs), j \in ShadingPatterns(objs) :
                \A p \in ProbePoints :
                    map_point(objs[j].matrix, p)
                        = map_point(returned.frame.accumulated_transform,
                                    map_point(MaskTransform(objs[i]), p))

====
